---- MODULE Spec2Model ----
(***************************************************************************)
(* A model of git-req's remote resolution (src/src/remotes.rs and          *)
(* src/src/remotes/bitbucket.rs): origin classification, credential and    *)
(* project-identity resolution in get_remote, the GitLab lookup/search     *)
(* chain, the provider clients' calls and the request mappers.             *)
(*                                                                         *)
(* Strings are sequences of one-character strings, so that the regular     *)
(* expressions, trim() and format!("{}") are computed, not assumed.        *)
(***************************************************************************)
EXTENDS Integers, Sequences, FiniteSets, TLC

\* Option::None of an optional string: no string of characters equals it
None == <<"None">>

\* ------------------------------------------------------------------ text

Whitespace == {" ", "\t", "\n"}

Digits == <<"0", "1", "2", "3", "4", "5", "6", "7", "8", "9">>

WordChars ==
    {"a","b","c","d","e","f","g","h","i","j","k","l","m","n","o","p","q","r",
     "s","t","u","v","w","x","y","z","_"} \cup {Digits[i] : i \in 1..10}

SetMax(S) == CHOOSE x \in S : \A y \in S : y <= x

SetMin(S) == CHOOSE x \in S : \A y \in S : x <= y

\* \S over s[a..b] (true of an empty range)
AllNonWs(s, a, b) == \A i \in a..b : s[i] \notin Whitespace

\* \w over s[a..b]
AllWord(s, a, b) == \A i \in a..b : s[i] \in WordChars

\* . over s[a..b]: any character but a line feed
AllDot(s, a, b) == \A i \in a..b : s[i] # "\n"

\* the literal \.git at s[a..a+3]
GitAt(s, a) ==
    /\ a >= 1
    /\ a + 3 <= Len(s)
    /\ SubSeq(s, a, a + 3) = <<".", "g", "i", "t">>

StartsWithAt(s, i, lit) ==
    /\ i + Len(lit) - 1 <= Len(s)
    /\ SubSeq(s, i, i + Len(lit) - 1) = lit

\* str::trim(): leading and trailing whitespace removed
Trim(s) ==
    LET keep == {i \in 1..Len(s) : s[i] \notin Whitespace}
    IN  IF keep = {} THEN <<>> ELSE SubSeq(s, SetMin(keep), SetMax(keep))

RECURSIVE NatDigits(_)
NatDigits(n) ==
    IF n < 10 THEN <<Digits[n + 1]>>
    ELSE NatDigits(n \div 10) \o <<Digits[(n % 10) + 1]>>

\* format!("{}", n) of an i64
FormatInt(n) == IF n < 0 THEN <<"-">> \o NatDigits(0 - n) ELSE NatDigits(n)

\* ------------------------------------------------------- URL classifier

SchemeHttps == <<"h","t","t","p","s",":","/","/">>
SchemeHttp == <<"h","t","t","p",":","/","/">>
SchemeSsh == <<"s","s","h",":","/","/">>

\* ((http[s]?|ssh)://) at position i: the position after it, or 0
SchemeEnd(s, i) ==
    IF StartsWithAt(s, i, SchemeHttps) THEN i + Len(SchemeHttps)
    ELSE IF StartsWithAt(s, i, SchemeHttp) THEN i + Len(SchemeHttp)
    ELSE IF StartsWithAt(s, i, SchemeSsh) THEN i + Len(SchemeSsh)
    ELSE 0

DomainChar(s, i) == i >= 1 /\ i <= Len(s) /\ s[i] \notin {":", "/"}

\* (\S+@) from position j, greedy, with a domain character after it: the
\* positions of the '@' it can end at
UserEnds(s, j) ==
    {k \in (j + 1)..Len(s) :
        s[k] = "@" /\ AllNonWs(s, j, k - 1) /\ DomainChar(s, k + 1)}

\* (\S+@)?(?P<domain>([^:/])+) from position j: where the domain starts, or 0
DomainStartFrom(s, j) ==
    IF UserEnds(s, j) # {} THEN SetMax(UserEnds(s, j)) + 1
    ELSE IF DomainChar(s, j) THEN j
    ELSE 0

\* the whole pattern tried at position i: where the domain starts, or 0
DomainStartAt(s, i) ==
    LET e == SchemeEnd(s, i)
        viaScheme == IF e = 0 THEN 0 ELSE DomainStartFrom(s, e)
    IN  IF viaScheme # 0 THEN viaScheme ELSE DomainStartFrom(s, i)

\* get_domain: Err (None) when the pattern matches nowhere, else the domain
\* group of the leftmost match
get_domain(origin) ==
    LET starts == {i \in 1..Len(origin) : DomainStartAt(origin, i) # 0}
    IN  IF starts = {} THEN None
        ELSE LET d == DomainStartAt(origin, SetMin(starts))
                 stop == {k \in d..Len(origin) : origin[k] \in {":", "/"}}
                 last == IF stop = {} THEN Len(origin) ELSE SetMin(stop) - 1
             IN  SubSeq(origin, d, last)

\* get_gitlab_project_name without the greedy prefix: the leftmost '/' wins
get_gitlab_project_name_leftmost(origin) ==
    LET n == Len(origin)
        ps == {p \in 1..n :
                 /\ origin[p] = "/"
                 /\ p + 1 <= n - 4
                 /\ GitAt(origin, n - 3)
                 /\ AllNonWs(origin, p + 1, n - 4)}
    IN  IF ps = {} THEN None ELSE SubSeq(origin, SetMin(ps) + 1, n - 4)

\* get_gitlab_project_name: .*/(\S+)\.git$ ; None is the unwrap() of no match
get_gitlab_project_name(origin) ==
    LET n == Len(origin)
        ps == {p \in 1..n :
                 /\ origin[p] = "/"
                 /\ p + 1 <= n - 4
                 /\ GitAt(origin, n - 3)
                 /\ AllNonWs(origin, p + 1, n - 4)}
    IN  IF ps = {} THEN None ELSE SubSeq(origin, SetMax(ps) + 1, n - 4)

\* the '/' positions q that end (\S+) after separator p in
\* .*[/:](\S+)/\S+\.git$
NamespaceEnds(s, p) ==
    LET n == Len(s)
    IN  {q \in (p + 2)..(n - 5) :
            /\ s[q] = "/"
            /\ AllNonWs(s, p + 1, q - 1)
            /\ AllNonWs(s, q + 1, n - 4)
            /\ GitAt(s, n - 3)}

\* get_gitlab_project_namespace: .*[/:](\S+)/\S+\.git$ ; None is Option::None
get_gitlab_project_namespace(origin) ==
    LET ps == {p \in 1..Len(origin) :
                 origin[p] \in {"/", ":"} /\ NamespaceEnds(origin, p) # {}}
    IN  IF ps = {} THEN None
        ELSE LET p == SetMax(ps)
             IN  SubSeq(origin, p + 1, SetMax(NamespaceEnds(origin, p)) - 1)

\* where \S+ can end after the '/' at q in (.*/\S+)\.git\w*$
SlugEnds(s, q) ==
    {r \in (q + 1)..(Len(s) - 4) :
        /\ AllNonWs(s, q + 1, r)
        /\ GitAt(s, r + 1)
        /\ AllWord(s, r + 5, Len(s))}

\* the '/' positions the group's greedy .* can stop before, after the ':' at p
SlugSlashes(s, p) ==
    {q \in (p + 1)..Len(s) :
        s[q] = "/" /\ AllDot(s, p + 1, q - 1) /\ SlugEnds(s, q) # {}}

\* get_github_project_name and get_bitbucket_project_name:
\* .*:(.*/\S+)\.git\w*$ ; None is the unwrap() of no match
get_github_project_name(origin) ==
    LET ps == {p \in 1..Len(origin) :
                 origin[p] = ":" /\ SlugSlashes(origin, p) # {}}
    IN  IF ps = {} THEN None
        ELSE LET p == SetMax(ps)
                 q == SetMax(SlugSlashes(origin, p))
             IN  SubSeq(origin, p + 1, SetMax(SlugEnds(origin, q)))

\* ------------------------------------------------------- request mapper

\* gitlab_to_mr
gitlab_to_mr(req) ==
    [id |-> req.iid, title |-> req.title, description |-> req.description,
     source_branch |-> req.source_branch]

\* github_to_mr reading the global id where it should read the number
github_to_mr_by_id(req) ==
    [id |-> req.id, title |-> req.title, description |-> req.body,
     source_branch |-> <<"p", "r", "/">> \o FormatInt(req.id)]

\* github_to_mr
github_to_mr(req) ==
    [id |-> req.number, title |-> req.title, description |-> req.body,
     source_branch |-> <<"p", "r", "/">> \o FormatInt(req.number)]

\* bitbucket_to_mr
bitbucket_to_mr(req) ==
    [id |-> req.id, title |-> req.title, description |-> req.summary,
     source_branch |->
        <<"p","u","l","l","r","e","q","u","e","s","t","s","/">> \o FormatInt(req.id)]

RECURSIVE MapSeq(_, _)
\* buf.into_iter().map(f).collect()
MapSeq(variant, buf) ==
    IF buf = <<>> THEN <<>>
    ELSE <<IF variant = "GitHub" THEN github_to_mr(Head(buf))
           ELSE gitlab_to_mr(Head(buf))>> \o MapSeq(variant, Tail(buf))

\* ------------------------------------------------------------ the state

VARIABLES
    origin,       \* the repository's origin URL (git plumbing, fixed per repository)
    reqConfig,    \* git::get_req_config / set_req_config: domain -> apikey or None
    config,       \* git::get_config / set_config: the repo-local projectid or None
    pc,           \* where the current invocation stands
    caller,       \* who runs get_project_id: "get_remote" or "client"
    remote,       \* the client under construction or returned
    nsBuf,        \* search_gitlab_project_id's ns_buf
    requests,     \* the HTTP requests this invocation has sent, in order
    lastResp,     \* the response to the last of them
    searchResult, \* what search_gitlab_project_id returned in this invocation
    result,       \* what the last operation returned to its caller
    keyObtained,  \* get_api_key has returned in this invocation
    prompts,      \* interactive prompts in this invocation
    storedKey,    \* the apikey the store held when get_api_key read it
    resolved,     \* the identity a resolution of this repository produced, or None
    resolvedIn,   \* the invocation that resolved it (0: none yet)
    inv,          \* the number of the current invocation
    segments,     \* the parts origin was built from (classifier runs)
    classified,   \* the classifier's output for origin (classifier runs)
    payload,      \* a provider payload (mapper runs)
    mapped        \* its normalized MergeRequest (mapper runs)

vars ==
    <<origin, reqConfig, config, pc, caller, remote, nsBuf, requests, lastResp,
      searchResult, result, keyObtained, prompts, storedKey, resolved,
      resolvedIn, inv, segments, classified, payload, mapped>>

\* ----------------------------------------------------------------- bounds

\* invocations of the CLI on one repository
MaxInvocations == 2
\* entries in a listing the API returns
MaxList == 2
\* characters in a generated domain, namespace or name segment
MaxSeg == 2

\* ------------------------------------------------------------- the inputs

GithubCom == <<"g","i","t","h","u","b",".","c","o","m">>
BitbucketOrg == <<"b","i","t","b","u","c","k","e","t",".","o","r","g">>
GlIo == <<"g","l",".","i","o">>
GitAtUser == <<"g","i","t","@">>
DotGit == <<".","g","i","t">>

SshOrigin(d, ns, name) == GitAtUser \o d \o <<":">> \o ns \o <<"/">> \o name \o DotGit

HttpsOrigin(d, ns, name) ==
    SchemeHttps \o d \o <<"/">> \o ns \o <<"/">> \o name \o DotGit

\* the origins a repository of the runs below can have
Origins ==
    { SshOrigin(GlIo, <<"n","s">>, <<"p","r">>),
      HttpsOrigin(GlIo, <<"n","s">>, <<"p","r">>),
      SshOrigin(GithubCom, <<"o","w">>, <<"r","e">>),
      HttpsOrigin(GithubCom, <<"o","w">>, <<"r","e">>),
      SchemeHttps \o GithubCom \o <<"/","o","w","/","r","e">>,
      SshOrigin(BitbucketOrg, <<"s","h">>, <<"t","e">>),
      GitAtUser \o GlIo \o <<":","p","r">> \o DotGit,
      <<":","/","/">>,
      <<>> }

ConfigDomains == {get_domain(o) : o \in Origins} \ {None}

\* what the user types at the token prompt, as read_line returns it
PromptLines == { <<"t","k","\n">>, <<" ","t"," ","k"," ","\n">>, <<"\n">> }

\* read_line failing (no terminal)
ReadError == <<"ReadError">>

ProjectIds == {3, 42}
NamespaceKinds == {"user", "group", "project"}
MrIds == {-1, 0, 7, 120}

Garbage == [shape |-> "garbage"]

Http(bodies) ==
    [sent : {TRUE}, success : BOOLEAN, body : bodies \cup {Garbage}]
    \cup {[sent |-> FALSE, success |-> FALSE, body |-> Garbage]}

RECURSIVE SeqsUpTo(_, _)
SeqsUpTo(S, n) ==
    IF n = 0 THEN {<<>>}
    ELSE LET shorter == SeqsUpTo(S, n - 1)
         IN  shorter \cup {Append(q, x) : q \in shorter, x \in S}

ProjectBodies(name) ==
    [shape : {"project"}, id : ProjectIds,
     name : {name, name \o <<"2">>}]

NamespaceBodies ==
    [shape : {"namespace"}, id : {5}, kind : NamespaceKinds]

ProjectListBodies(name) ==
    {[shape |-> "projects", list |-> l] :
        l \in SeqsUpTo([id : ProjectIds, name : {name, name \o <<"2">>}], MaxList)}

GitLabMergeRequests ==
    { [id |-> 900, iid |-> 7, title |-> <<"F","i","x">>, description |-> None,
       source_branch |-> <<"f","i","x">>],
      [id |-> 7, iid |-> 120, title |-> <<>>, description |-> <<"d">>,
       source_branch |-> <<"p","r","/","7">>] }

GitHubPullRequests ==
    { [id |-> 900, number |-> 7, title |-> <<"F","i","x">>, body |-> None],
      [id |-> 7, number |-> 120, title |-> <<>>, body |-> <<"d">>] }

BitbucketPullRequests ==
    { [id |-> 7, title |-> <<"F","i","x">>, summary |-> None],
      [id |-> 120, title |-> <<>>, summary |-> <<"d">>],
      [id |-> 0, title |-> <<"p","r","/","9">>, summary |-> <<>>] }

MergeRequestBodies == [shape : {"merge_request"}, mr : GitLabMergeRequests]

RequestListBodies(variant) ==
    {[shape |-> "requests", list |-> l] :
        l \in SeqsUpTo(IF variant = "GitHub" THEN GitHubPullRequests
                       ELSE GitLabMergeRequests, MaxList)}

\* -------------------------------------------------------- the operations

NoRemote ==
    [variant |-> "None", id |-> <<>>, domain |-> <<>>, name |-> <<>>,
     namespace |-> <<>>, api_root |-> <<>>, api_key |-> <<>>]

NoResponse == [sent |-> FALSE, success |-> FALSE, body |-> [shape |-> "none"]]

NoNamespace == [shape |-> "none", id |-> 0, kind |-> "none"]

NoSearch == [kind |-> "none", id |-> 0, err |-> ""]

NoResult == [op |-> "none", kind |-> "none", value |-> <<>>, err |-> ""]

NotRun == [ran |-> FALSE]

GithubApiRoot ==
    SchemeHttps \o <<"a","p","i",".">> \o GithubCom \o <<"/","r","e","p","o","s">>

\* format!("https://{}/api/v4", gitlab_domain)
GitlabApiRoot(domain) == SchemeHttps \o domain \o <<"/","a","p","i","/","v","4">>

\* the match on the domain in get_remote
SelectProvider(domain) == IF domain = GithubCom THEN "GitHub" ELSE "GitLab"

\* the match on git::get_req_config in get_api_key: only None prompts
NeedsPrompt(stored) == stored = None

\* FinishRemote with the assignment remote.id = project_id left out
FinishRemoteDropsId(r, project_id) == r

\* load_project_id never finding the key
load_project_id_missing(stored) == None

\* load_project_id: git::get_config("projectid"), passed on as it is
load_project_id(stored) == stored

\* remote.id = project_id; Box::new(remote)
FinishRemote(r, project_id) == [r EXCEPT !.id = project_id]

\* FindProject taking the last match instead of the first
FindLastProject(projects, name) ==
    LET hits == {i \in 1..Len(projects) : projects[i].name = name}
    IN  IF hits = {} THEN 0 ELSE SetMax(hits)

\* projects.iter().find(|&prj| prj.name == remote.name): its index, or 0
FindProject(projects, name) ==
    LET hits == {i \in 1..Len(projects) : projects[i].name = name}
    IN  IF hits = {} THEN 0 ELSE SetMin(hits)

\* ListingEndpoint with every kind but user listed as a group
ListingEndpointDefaultGroup(kind) ==
    IF kind = "user" THEN "user_projects" ELSE "group_projects"

\* the url search_gitlab_project_id builds from ns_buf.kind
ListingEndpoint(kind) ==
    IF kind = "user" THEN "user_projects"
    ELSE IF kind = "group" THEN "group_projects"
    ELSE "none"

\* DirectHit with the status test inverted
DirectHitInverted(resp) == ~resp.success

\* whether query_gitlab_project_id takes the response as the project
DirectHit(resp) == resp.success

\* a request as query_github_api / query_gitlab_api / query_gitlab_branch_name
\* send it (the endpoint, the identity in its path, the token header), logged
\* with whether get_api_key had returned and whether the answer was a success
Request(endpoint, id, extra, resp) ==
    [endpoint |-> endpoint, root |-> remote.api_root, id |-> id, extra |-> extra,
     header |-> IF remote.variant = "GitHub" THEN "Authorization" ELSE "PRIVATE-TOKEN",
     token |-> remote.api_key, keyed |-> keyObtained,
     success |-> resp.sent /\ resp.success]

pureVars == <<segments, classified, payload, mapped>>

history == <<resolved, resolvedIn, inv>>

\* a panic (unwrap, expect) ends the process
Panics(op, msg) ==
    /\ pc' = "panicked"
    /\ result' = [op |-> op, kind |-> "panic", value |-> <<>>, err |-> msg]

\* the operation the lookup chain runs for
ChainOp == IF caller = "get_remote" THEN "get_remote" ELSE "get_project_id"

\* query_gitlab_project_id returned Ok(id): get_project_id caches it, and
\* get_remote persists it and returns the client
IdentityFound(id) ==
    LET idStr == FormatInt(id)
        cached == [remote EXCEPT !.id = idStr]
    IN  IF caller = "get_remote"
        THEN /\ remote' = FinishRemote(cached, idStr)
             /\ config' = idStr
             /\ pc' = "ready"
             /\ result' = [op |-> "get_remote", kind |-> "client",
                           value |-> <<>>, err |-> ""]
             /\ resolved' = idStr
             /\ resolvedIn' = inv
             /\ UNCHANGED inv
        ELSE /\ remote' = cached
             /\ pc' = "called"
             /\ result' = [op |-> "get_project_id", kind |-> "ok",
                           value |-> idStr, err |-> ""]
             /\ UNCHANGED <<config, history>>

\* query_gitlab_project_id maps every search error to the guidance message
IdentityFailed ==
    /\ pc' = IF caller = "get_remote" THEN "done" ELSE "called"
    /\ result' = [op |-> ChainOp, kind |-> "err", value |-> <<>>,
                  err |-> "Unable to get the project ID from the GitLab API."]
    /\ UNCHANGED <<remote, config, history>>

\* get_remote up to the construction of the client struct
ResolveOrigin ==
    /\ pc = "idle"
    /\ LET domain == get_domain(origin)
       IN  IF domain = None
           THEN /\ pc' = "done"
                /\ result' = [op |-> "get_remote", kind |-> "err", value |-> <<>>,
                              err |-> "invalid remote set"]
                /\ UNCHANGED remote
           ELSE IF SelectProvider(domain) = "GitHub"
           THEN IF get_github_project_name(origin) = None
                THEN Panics("get_remote", "unwrap on None") /\ UNCHANGED remote
                ELSE /\ remote' = [NoRemote EXCEPT
                                     !.variant = "GitHub",
                                     !.id = get_github_project_name(origin),
                                     !.name = get_github_project_name(origin),
                                     !.api_root = GithubApiRoot]
                     /\ pc' = "apikey"
                     /\ UNCHANGED result
           ELSE IF get_gitlab_project_namespace(origin) = None
           THEN /\ pc' = "done"
                /\ result' = [op |-> "get_remote", kind |-> "err", value |-> <<>>,
                              err |-> "Could not parse the GitLab project namespace from the origin."]
                /\ UNCHANGED remote
           ELSE IF get_gitlab_project_name(origin) = None
           THEN Panics("get_remote", "unwrap on None") /\ UNCHANGED remote
           ELSE /\ remote' = [NoRemote EXCEPT
                                !.variant = "GitLab",
                                !.domain = domain,
                                !.name = get_gitlab_project_name(origin),
                                !.namespace = get_gitlab_project_namespace(origin),
                                !.api_root = GitlabApiRoot(domain)]
                /\ pc' = "apikey"
                /\ UNCHANGED result
    /\ UNCHANGED <<origin, reqConfig, config, caller, nsBuf, requests, lastResp,
                   searchResult, keyObtained, prompts, storedKey, history, pureVars>>

\* get_api_key, remote.api_key = apikey, and for GitLab load_project_id
GetApiKey ==
    /\ pc = "apikey"
    /\ LET domain == IF remote.variant = "GitHub" THEN GithubCom ELSE get_domain(origin)
           stored == reqConfig[domain]
       IN  /\ storedKey' = stored
           /\ \E line \in PromptLines \cup {ReadError} :
                IF NeedsPrompt(stored) /\ line = ReadError
                THEN /\ Panics("get_remote", "Did not input a correct key")
                     /\ prompts' = prompts + 1
                     /\ UNCHANGED <<reqConfig, remote, keyObtained, caller>>
                ELSE LET key == IF NeedsPrompt(stored) THEN Trim(line) ELSE stored
                         keyed == [remote EXCEPT !.api_key = key]
                     IN  /\ prompts' = IF NeedsPrompt(stored) THEN prompts + 1 ELSE prompts
                         /\ reqConfig' = IF NeedsPrompt(stored)
                                         THEN [reqConfig EXCEPT ![domain] = Trim(line)]
                                         ELSE reqConfig
                         /\ keyObtained' = TRUE
                         /\ IF remote.variant = "GitHub" \/ load_project_id(config) # None
                            THEN /\ remote' = IF remote.variant = "GitHub" THEN keyed
                                              ELSE FinishRemote(keyed, load_project_id(config))
                                 /\ pc' = "ready"
                                 /\ result' = [op |-> "get_remote", kind |-> "client",
                                               value |-> <<>>, err |-> ""]
                                 /\ UNCHANGED caller
                            ELSE /\ remote' = keyed
                                 /\ pc' = "direct"
                                 /\ caller' = "get_remote"
                                 /\ UNCHANGED result
    /\ UNCHANGED <<origin, config, nsBuf, requests, lastResp, searchResult,
                   history, pureVars>>

\* query_gitlab_project_id: GET /projects/<namespace>%2F<name>
DirectLookup ==
    /\ pc = "direct"
    /\ \E resp \in Http(ProjectBodies(remote.name)) :
        /\ requests' = Append(requests, Request("project", <<>>,
                                                <<remote.namespace, remote.name>>, resp))
        /\ lastResp' = resp
        /\ IF ~resp.sent
           THEN /\ Panics(ChainOp, "failed to send request")
                /\ UNCHANGED <<remote, config, history>>
           ELSE IF ~DirectHit(resp)
           THEN /\ pc' = "namespace"
                /\ UNCHANGED <<remote, config, history, result>>
           ELSE IF resp.body.shape # "project"
           THEN /\ Panics(ChainOp, "failed to read response")
                /\ UNCHANGED <<remote, config, history>>
           ELSE IdentityFound(resp.body.id)
    /\ UNCHANGED <<origin, reqConfig, caller, nsBuf, searchResult, keyObtained,
                   prompts, storedKey, pureVars>>

\* search_gitlab_project_id: GET /namespaces/<namespace>
NamespaceLookup ==
    /\ pc = "namespace"
    /\ \E resp \in Http(NamespaceBodies) :
        /\ requests' = Append(requests, Request("namespace", <<>>,
                                                <<remote.namespace>>, resp))
        /\ lastResp' = resp
        /\ IF ~resp.sent
           THEN /\ Panics(ChainOp, "failed to send request")
                /\ UNCHANGED <<remote, config, history, nsBuf, searchResult>>
           ELSE IF ~resp.success
           THEN /\ searchResult' = [kind |-> "err", id |-> 0,
                                    err |-> "Couldn't find namespace"]
                /\ IdentityFailed
                /\ UNCHANGED nsBuf
           ELSE IF resp.body.shape # "namespace"
           THEN /\ Panics(ChainOp, "failed to read response")
                /\ UNCHANGED <<remote, config, history, nsBuf, searchResult>>
           ELSE IF ListingEndpoint(resp.body.kind) = "none"
           THEN /\ searchResult' = [kind |-> "err", id |-> 0,
                                    err |-> "Unknown namespace"]
                /\ IdentityFailed
                /\ UNCHANGED nsBuf
           ELSE /\ nsBuf' = resp.body
                /\ pc' = "listing"
                /\ UNCHANGED <<remote, config, history, result, searchResult>>
    /\ UNCHANGED <<origin, reqConfig, caller, keyObtained, prompts, storedKey,
                   pureVars>>

\* search_gitlab_project_id: GET /users/<id>/projects or
\* /groups/<id>/projects?search=<name>, then the scan for the name
ProjectListing ==
    /\ pc = "listing"
    /\ \E resp \in Http(ProjectListBodies(remote.name)) :
        /\ requests' = Append(requests,
                Request(ListingEndpoint(nsBuf.kind), FormatInt(nsBuf.id),
                        IF nsBuf.kind = "group" THEN <<remote.name>> ELSE <<>>, resp))
        /\ lastResp' = resp
        /\ IF ~resp.sent
           THEN /\ Panics(ChainOp, "failed to send request")
                /\ UNCHANGED <<remote, config, history, searchResult>>
           ELSE IF resp.body.shape # "projects"
           THEN /\ Panics(ChainOp, "failed to read projects response")
                /\ UNCHANGED <<remote, config, history, searchResult>>
           ELSE LET hit == FindProject(resp.body.list, remote.name)
                IN  IF hit = 0
                    THEN /\ searchResult' = [kind |-> "err", id |-> 0,
                                             err |-> "Couldn't find project"]
                         /\ IdentityFailed
                    ELSE /\ searchResult' = [kind |-> "ok", id |-> resp.body.list[hit].id,
                                             err |-> ""]
                         /\ IdentityFound(resp.body.list[hit].id)
    /\ UNCHANGED <<origin, reqConfig, caller, nsBuf, keyObtained, prompts,
                   storedKey, pureVars>>

\* Remote::get_project_id on the returned client
GetProjectId ==
    /\ pc = "ready"
    /\ IF remote.variant = "GitLab" /\ remote.id = <<>>
       THEN /\ pc' = "direct"
            /\ caller' = "client"
            /\ UNCHANGED result
       ELSE /\ pc' = "called"
            /\ result' = [op |-> "get_project_id", kind |-> "ok",
                          value |-> remote.id, err |-> ""]
            /\ UNCHANGED caller
    /\ UNCHANGED <<origin, reqConfig, config, remote, nsBuf, requests, lastResp,
                   searchResult, keyObtained, prompts, storedKey, history, pureVars>>

\* Remote::get_req_branch: GitHub formats the name, GitLab asks
\* GET /projects/<id>/merge_requests/<mr_id> (query_gitlab_branch_name)
GetReqBranch ==
    /\ pc = "ready"
    /\ \E mr_id \in MrIds :
        IF remote.variant = "GitHub"
        THEN /\ pc' = "called"
             /\ result' = [op |-> "get_req_branch", kind |-> "ok",
                           value |-> <<"p", "r", "/">> \o FormatInt(mr_id), err |-> ""]
             /\ UNCHANGED <<requests, lastResp>>
        ELSE \E resp \in Http(MergeRequestBodies) :
             /\ requests' = Append(requests,
                    Request("merge_request", remote.id, <<FormatInt(mr_id)>>, resp))
             /\ lastResp' = resp
             /\ IF ~resp.sent
                THEN Panics("get_req_branch", "failed to send request")
                ELSE /\ pc' = "called"
                     /\ result' =
                          IF resp.body.shape # "merge_request"
                          THEN [op |-> "get_req_branch", kind |-> "err", value |-> <<>>,
                                err |-> "failed to read response"]
                          ELSE [op |-> "get_req_branch", kind |-> "ok",
                                value |-> resp.body.mr.source_branch, err |-> ""]
    /\ UNCHANGED <<origin, reqConfig, config, caller, remote, nsBuf, searchResult,
                   keyObtained, prompts, storedKey, history, pureVars>>

\* Remote::get_req_names: retrieve_github_project_pull_requests or
\* retrieve_gitlab_project_merge_requests
GetReqNames ==
    /\ pc = "ready"
    /\ \E resp \in Http(RequestListBodies(remote.variant)) :
        /\ requests' = Append(requests,
               Request(IF remote.variant = "GitHub" THEN "pulls" ELSE "merge_requests",
                       remote.id, <<>>, resp))
        /\ lastResp' = resp
        /\ IF ~resp.sent
           THEN Panics("get_req_names", "failed to send request")
           ELSE /\ pc' = "called"
                /\ result' =
                     IF resp.body.shape # "requests"
                     THEN [op |-> "get_req_names", kind |-> "err", value |-> <<>>,
                           err |-> IF remote.variant = "GitHub"
                                   THEN "failed to read API response"
                                   ELSE "failed to read response"]
                     ELSE [op |-> "get_req_names", kind |-> "ok",
                           value |-> MapSeq(remote.variant, resp.body.list), err |-> ""]
    /\ UNCHANGED <<origin, reqConfig, config, caller, remote, nsBuf, searchResult,
                   keyObtained, prompts, storedKey, history, pureVars>>

\* the process ends and the CLI is run again on the same repository: only the
\* git configuration survives
NextInvocation ==
    /\ pc \in {"ready", "called", "done", "panicked"}
    /\ inv < MaxInvocations
    /\ inv' = inv + 1
    /\ pc' = "idle"
    /\ caller' = "get_remote"
    /\ remote' = NoRemote
    /\ nsBuf' = NoNamespace
    /\ requests' = <<>>
    /\ lastResp' = NoResponse
    /\ searchResult' = NoSearch
    /\ result' = NoResult
    /\ keyObtained' = FALSE
    /\ prompts' = 0
    /\ storedKey' = None
    /\ UNCHANGED <<origin, reqConfig, config, resolved, resolvedIn, pureVars>>

\* the state at the start of a process: nothing resolved, nothing sent
Fresh ==
    /\ pc = "idle"
    /\ caller = "get_remote"
    /\ remote = NoRemote
    /\ nsBuf = NoNamespace
    /\ requests = <<>>
    /\ lastResp = NoResponse
    /\ searchResult = NoSearch
    /\ result = NoResult
    /\ keyObtained = FALSE
    /\ prompts = 0
    /\ storedKey = None
    /\ resolved = None
    /\ resolvedIn = 0
    /\ inv = 1

Init ==
    /\ origin \in Origins
    /\ reqConfig \in [ConfigDomains -> {None, <<"t","k">>}]
    /\ config \in {None, <<"9">>}
    /\ Fresh
    /\ segments = <<>>
    /\ classified = NotRun
    /\ payload = NotRun
    /\ mapped = NotRun

Next ==
    \/ ResolveOrigin
    \/ GetApiKey
    \/ DirectLookup
    \/ NamespaceLookup
    \/ ProjectListing
    \/ GetProjectId
    \/ GetReqBranch
    \/ GetReqNames
    \/ NextInvocation

Spec == Init /\ [][Next]_vars

\* ------------------------------------------------ the classifier, alone

SegChars == {"a", "."}

Segments ==
    (SeqsUpTo(SegChars, MaxSeg) \ {<<>>})
    \cup {DotGit, <<"a",".","g","i","t">>, <<"s","s","h">>}

ClassifyInit ==
    /\ segments \in [domain : Segments, namespace : Segments, name : Segments,
                     style : {"ssh", "https"}]
    /\ origin = IF segments.style = "ssh"
                THEN SshOrigin(segments.domain, segments.namespace, segments.name)
                ELSE HttpsOrigin(segments.domain, segments.namespace, segments.name)
    /\ reqConfig = [d \in ConfigDomains |-> None]
    /\ config = None
    /\ Fresh
    /\ classified = NotRun
    /\ payload = NotRun
    /\ mapped = NotRun

\* get_domain, get_gitlab_project_namespace and get_gitlab_project_name on origin
Classify ==
    /\ ~classified.ran
    /\ classified' = [ran |-> TRUE,
                      domain |-> get_domain(origin),
                      namespace |-> get_gitlab_project_namespace(origin),
                      name |-> get_gitlab_project_name(origin)]
    /\ UNCHANGED <<origin, reqConfig, config, pc, caller, remote, nsBuf, requests,
                   lastResp, searchResult, result, keyObtained, prompts, storedKey,
                   history, segments, payload, mapped>>

ClassifyNext == Classify

SpecClassify == ClassifyInit /\ [][ClassifyNext]_vars

\* --------------------------------------------------- the mappers, alone

Titles == {<<>>, <<"F","i","x">>, <<"p","r","/","9">>}
Descriptions == {None, <<>>, <<"d">>}
Branches == {<<"f","i","x">>, <<"p","r","/","7">>, <<>>}

MapperPayloads ==
    [provider : {"GitHub"}, id : {7, 900}, number : MrIds, title : Titles,
     body : Descriptions]
    \cup [provider : {"GitLab"}, id : {7, 900}, iid : MrIds, title : Titles,
          description : Descriptions, source_branch : Branches]
    \cup [provider : {"Bitbucket"}, id : MrIds, title : Titles,
          summary : Descriptions]

MapInit ==
    /\ payload \in MapperPayloads
    /\ mapped = NotRun
    /\ origin = <<>>
    /\ reqConfig = [d \in ConfigDomains |-> None]
    /\ config = None
    /\ Fresh
    /\ segments = <<>>
    /\ classified = NotRun

MapUnchanged ==
    UNCHANGED <<origin, reqConfig, config, pc, caller, remote, nsBuf, requests,
                lastResp, searchResult, result, keyObtained, prompts, storedKey,
                history, segments, classified, payload>>

MapGitHub ==
    /\ ~mapped.ran
    /\ payload.provider = "GitHub"
    /\ mapped' = [ran |-> TRUE, mr |-> github_to_mr(payload)]
    /\ MapUnchanged

MapGitLab ==
    /\ ~mapped.ran
    /\ payload.provider = "GitLab"
    /\ mapped' = [ran |-> TRUE, mr |-> gitlab_to_mr(payload)]
    /\ MapUnchanged

MapBitbucket ==
    /\ ~mapped.ran
    /\ payload.provider = "Bitbucket"
    /\ mapped' = [ran |-> TRUE, mr |-> bitbucket_to_mr(payload)]
    /\ MapUnchanged

MapNext == MapGitHub \/ MapGitLab \/ MapBitbucket

SpecMap == MapInit /\ [][MapNext]_vars

\* ------------------------------------------------------------ the claims

DigitValue(c) == CHOOSE d \in 0..9 : Digits[d + 1] = c

IsDigits(s) ==
    /\ Len(s) >= 1
    /\ \A i \in 1..Len(s) : \E d \in 1..10 : Digits[d] = s[i]

RECURSIVE DigitsValue(_)
DigitsValue(s) ==
    IF s = <<>> THEN 0
    ELSE 10 * DigitsValue(SubSeq(s, 1, Len(s) - 1)) + DigitValue(s[Len(s)])

\* s is the decimal numeral of n
IsDecimalOf(s, n) ==
    IF Len(s) >= 2 /\ s[1] = "-"
    THEN IsDigits(Tail(s)) /\ 0 - DigitsValue(Tail(s)) = n
    ELSE IsDigits(s) /\ DigitsValue(s) = n

HasPrefix(s, pre) == Len(s) >= Len(pre) /\ SubSeq(s, 1, Len(pre)) = pre

AfterPrefix(s, pre) == SubSeq(s, Len(pre) + 1, Len(s))

IdentityEndpoints == {"project", "namespace", "user_projects", "group_projects"}
SearchEndpoints == {"namespace", "user_projects", "group_projects"}
ListingEndpoints == {"user_projects", "group_projects"}
ProjectScoped == {"merge_requests", "merge_request"}

LastEndpoint == IF requests = <<>> THEN "none" ELSE requests[Len(requests)].endpoint

\* C1: on a GitLab client every request is sent after get_api_key has returned
\* and carries the token it returned, and every project-scoped request
\* (/projects/<id>/merge_requests...) carries a non-empty identity, the client's,
\* and comes after every request of the identity resolution.
C1_Ordering ==
    \A i \in 1..Len(requests) :
        /\ requests[i].keyed
        /\ keyObtained
        /\ requests[i].token = remote.api_key
        /\ requests[i].endpoint \in ProjectScoped =>
             /\ requests[i].id # <<>>
             /\ requests[i].id = remote.id
             /\ config = None \/ config = remote.id
             /\ \A j \in 1..Len(requests) :
                  requests[j].endpoint \in IdentityEndpoints => j < i

C1_Witness ==
    /\ Len(requests) = 2
    /\ requests[1].endpoint = "project"
    /\ requests[2].endpoint = "merge_requests"
    /\ requests[2].id = <<"4", "2">>
    /\ prompts = 1

\* C2: when the direct lookup answers with a success status and a project of
\* id N, the identity get_project_id returns is the decimal numeral of N, and
\* no request of the namespace search is sent in that invocation.
C2_DirectLookup ==
    /\ \A i \in 1..Len(requests) :
         (requests[i].endpoint = "project" /\ requests[i].success) =>
            \A j \in 1..Len(requests) : requests[j].endpoint \notin SearchEndpoints
    /\ (LastEndpoint = "project" /\ lastResp.sent /\ lastResp.success
                                 /\ lastResp.body.shape = "project") =>
         /\ IsDecimalOf(remote.id, lastResp.body.id)
         /\ result.kind \in {"client", "ok"}
         /\ result.kind = "ok" => result.value = remote.id
         /\ result.kind = "client" => config = remote.id

C2_Witness ==
    /\ LastEndpoint = "project"
    /\ lastResp.sent /\ lastResp.success
    /\ lastResp.body.shape = "project"
    /\ lastResp.body.id = 42
    /\ remote.id = <<"4", "2">>
    /\ pc = "ready"

\* C3: after a failed direct lookup and a namespace of kind user or group, the
\* search returns the id of the first project of the returned list whose name
\* equals the project name, and resolution takes it as the identity; with no
\* such project the search fails with "Couldn't find project" and resolution
\* fails.
C3_FallbackSearch ==
    (LastEndpoint \in ListingEndpoints /\ lastResp.sent
                                       /\ lastResp.body.shape = "projects") =>
        LET list == lastResp.body.list
            named == {i \in 1..Len(list) : list[i].name = remote.name}
        IN  /\ Len(requests) = 3
            /\ requests[1].endpoint = "project" /\ ~requests[1].success
            /\ requests[2].endpoint = "namespace" /\ requests[2].success
            /\ nsBuf.kind \in {"user", "group"}
            /\ IF named = {}
               THEN /\ searchResult.kind = "err"
                    /\ searchResult.err = "Couldn't find project"
                    /\ result.kind = "err"
                    /\ remote.id = <<>>
               ELSE \E i \in named :
                    /\ \A j \in 1..(i - 1) : list[j].name # remote.name
                    /\ searchResult.kind = "ok"
                    /\ searchResult.id = list[i].id
                    /\ IsDecimalOf(remote.id, list[i].id)
                    /\ result.kind \in {"client", "ok"}

C3_Witness ==
    /\ LastEndpoint = "group_projects"
    /\ lastResp.sent
    /\ lastResp.body.shape = "projects"
    /\ Len(lastResp.body.list) = 2
    /\ lastResp.body.list[1] = [id |-> 42, name |-> remote.name]
    /\ lastResp.body.list[2] = [id |-> 3, name |-> remote.name]
    /\ remote.id = <<"4", "2">>

\* C4: when the namespace lookup answers with a non-success status, or with a
\* kind other than user and group, the search fails ("Couldn't find
\* namespace", "Unknown namespace"), resolution fails, and no project listing
\* is requested: a listing request follows only a successful namespace lookup
\* of kind user or group.
C4_UnresolvableNamespace ==
    /\ (LastEndpoint = "namespace" /\ lastResp.sent /\ ~lastResp.success) =>
         /\ searchResult.kind = "err"
         /\ searchResult.err = "Couldn't find namespace"
         /\ result.kind = "err"
         /\ pc \in {"done", "called"}
    /\ (LastEndpoint = "namespace" /\ lastResp.sent /\ lastResp.success
            /\ lastResp.body.shape = "namespace"
            /\ lastResp.body.kind \notin {"user", "group"}) =>
         /\ searchResult.kind = "err"
         /\ searchResult.err = "Unknown namespace"
         /\ result.kind = "err"
         /\ pc \in {"done", "called"}
    /\ \A j \in 1..Len(requests) :
         requests[j].endpoint \in ListingEndpoints =>
            /\ j >= 2
            /\ requests[j - 1].endpoint = "namespace"
            /\ requests[j - 1].success
            /\ nsBuf.kind \in {"user", "group"}

C4_Witness ==
    /\ LastEndpoint = "namespace"
    /\ lastResp.sent /\ lastResp.success
    /\ lastResp.body.shape = "namespace"
    /\ lastResp.body.kind = "project"
    /\ searchResult.err = "Unknown namespace"
    /\ pc = "done"

\* C5: once an invocation has resolved the identity, the projectid key of the
\* repository's configuration holds it, and every later invocation sends no
\* request of the identity resolution and returns a client whose identity is
\* the stored value.
C5_ResolvedOnce ==
    resolvedIn # 0 =>
        /\ config = resolved
        /\ inv > resolvedIn =>
             /\ \A i \in 1..Len(requests) :
                  requests[i].endpoint \notin IdentityEndpoints
             /\ pc \in {"ready", "called"} => remote.id = config

C5_Witness ==
    /\ resolvedIn = 1
    /\ inv = 2
    /\ pc = "called"
    /\ LastEndpoint = "merge_requests"
    /\ remote.id = <<"4", "2">>
    /\ config = <<"4", "2">>

\* C6: once get_api_key has returned, an absent or empty stored token has
\* led to exactly one prompt, a non-empty stored token to none, and after a
\* prompt the token stored and the token the client uses are both the trimmed
\* input.
C6_Credential ==
    keyObtained =>
        /\ storedKey \in {None, <<>>} => prompts = 1
        /\ storedKey \notin {None, <<>>} => prompts = 0 /\ remote.api_key = storedKey
        /\ prompts = 1 =>
             /\ reqConfig[get_domain(origin)] = remote.api_key
             /\ Trim(remote.api_key) = remote.api_key

\* C7: no operation panics: each returns a result or a typed failure.
C7_NoPanic == result.kind # "panic"

\* C8: for an origin git@<domain>:<ns>/<name>.git or
\* https://<domain>/<ns>/<name>.git, the classifier yields domain = <domain>,
\* namespace = <ns> and name = <name>.
C8_Classification ==
    classified.ran =>
        /\ classified.domain = segments.domain
        /\ classified.namespace = segments.namespace
        /\ classified.name = segments.name

C8_Witness ==
    /\ classified.ran
    /\ segments.style = "https"
    /\ segments.domain = <<"s", "s", "h">>
    /\ segments.name = <<"a", ".", "g", "i", "t">>
    /\ classified.name = <<"a", ".", "g", "i", "t">>

\* C9: the client get_remote returns is a GitHub client for github.com, a
\* Bitbucket client for bitbucket.org and a GitLab client for any other
\* domain, and with no domain extracted there is an error and no client.
C9_ProviderSelection ==
    /\ (result.op = "get_remote" /\ result.kind = "client") =>
         remote.variant =
            IF get_domain(origin) = GithubCom THEN "GitHub"
            ELSE IF get_domain(origin) = BitbucketOrg THEN "Bitbucket"
            ELSE "GitLab"
    /\ (get_domain(origin) = None /\ pc # "idle") =>
         /\ result.kind = "err"
         /\ remote = NoRemote

\* C10: a mapped GitHub request has id = number and source_branch "pr/" and
\* the numeral of the number; a Bitbucket one has source_branch
\* "pullrequests/" and the numeral of the id; a GitLab one has id = iid and
\* the payload's source_branch; title and description are carried over.
C10_Mapping ==
    mapped.ran =>
        /\ mapped.mr.title = payload.title
        /\ payload.provider = "GitHub" =>
             /\ mapped.mr.id = payload.number
             /\ mapped.mr.description = payload.body
             /\ HasPrefix(mapped.mr.source_branch, <<"p","r","/">>)
             /\ IsDecimalOf(AfterPrefix(mapped.mr.source_branch, <<"p","r","/">>),
                            payload.number)
        /\ payload.provider = "Bitbucket" =>
             /\ mapped.mr.id = payload.id
             /\ mapped.mr.description = payload.summary
             /\ HasPrefix(mapped.mr.source_branch,
                          <<"p","u","l","l","r","e","q","u","e","s","t","s","/">>)
             /\ IsDecimalOf(AfterPrefix(mapped.mr.source_branch,
                                <<"p","u","l","l","r","e","q","u","e","s","t","s","/">>),
                            payload.id)
        /\ payload.provider = "GitLab" =>
             /\ mapped.mr.id = payload.iid
             /\ mapped.mr.description = payload.description
             /\ mapped.mr.source_branch = payload.source_branch

C10_Witness ==
    /\ mapped.ran
    /\ payload.provider = "Bitbucket"
    /\ payload.id = 120
    /\ payload.title = <<>>
    /\ mapped.mr.source_branch =
         <<"p","u","l","l","r","e","q","u","e","s","t","s","/","1","2","0">>

====
